---- MODULE Spec2Model ----
(***************************************************************************)
(* Product persistence-and-validation subsystem of product-api.            *)
(*                                                                         *)
(* The relational store is modelled as two tables:                         *)
(*   products        : id -> row(name, price, description, discount,       *)
(*                               store, category_id)                       *)
(*   product_images  : set of rows(product_id, image_urls, is_main_image,  *)
(*                                 display_order)                          *)
(* plus the BIGSERIAL sequence that hands out product ids.  The surrogate  *)
(* key of product_images is never read or written by the code and is left  *)
(* out.  Text that the validation rules inspect (name, store) is a         *)
(* sequence of characters; prices and discounts are integers.              *)
(***************************************************************************)
EXTENDS Integers, Sequences, FiniteSets, TLC

VARIABLES products, product_images, products_id_seq, last, inflight

vars == <<products, product_images, products_id_seq, last, inflight>>

-----------------------------------------------------------------------------
(* Bounds of the model *)

MaxProducts == 2    \* product ids ever handed out by the sequence
MaxImages == 2      \* longest image sequence supplied to an add

-----------------------------------------------------------------------------
(* Characters and the classes of the validation regex ^[\p{L}\p{N}\s]+$ *)

Letters == {"a", "s", "t", "U"}
Numbers == {"7"}
Whitespace == {" "}
Others == {"-"}

NameOk == <<"U", " ", "7">>
NameBad == <<"a", "-">>
StoreA == <<"s">>
StoreB == <<"t", " ", "7">>
StoreBad == <<"-">>

UrlList == <<"b", "a", "c", "b">>

\* The image sequences supplied by callers: none, and the first MaxImages of
\* UrlList (a failed image insert leaves every shorter prefix behind).
ImageSeqs == {<<>>, SubSeq(UrlList, 1, MaxImages)}

-----------------------------------------------------------------------------
(* Errors *)

nil == [msg |-> "", id |-> 0, cause |-> ""]

ErrorsNew(msg) == [msg |-> msg, id |-> 0, cause |-> ""]

Errorf(format, id, cause) == [msg |-> format, id |-> id, cause |-> cause]

ErrNoRows == "no rows in result set"

\* The error a failed statement reports (connection lost, constraint violated).
DbError == "db error"

MaxDiscount == 70

-----------------------------------------------------------------------------
(* Validation rules *)

MatchString(name) ==
    /\ Len(name) >= 1
    /\ \A i \in 1..Len(name) : name[i] \in Letters \cup Numbers \cup Whitespace

validateNameWithRegex(name, errorMessage) ==
    IF name = <<>>
    THEN ErrorsNew(errorMessage)
    ELSE IF ~MatchString(name)
         THEN ErrorsNew("contains invalid characters (only alphanumeric and space allowed)")
         ELSE nil

\* Mutant: the price rule written as "< 0", so a price of zero passes.
validateProductCreate_ZeroPrice(productCreate) ==
    LET nameErr == validateNameWithRegex(productCreate.Name, "product name is required")
        storeErr == validateNameWithRegex(productCreate.Store, "store name is required")
    IN  IF nameErr # nil THEN nameErr
        ELSE IF productCreate.Price < 0
             THEN ErrorsNew("product price must be greater than zero")
        ELSE IF storeErr # nil THEN storeErr
        ELSE IF productCreate.Discount < 0 \/ productCreate.Discount > MaxDiscount
             THEN ErrorsNew("discount must be between 0 and 70 percent")
        ELSE nil

\* Mutant: the discount rule without its lower bound.
validateProductCreate_NoLowerDiscount(productCreate) ==
    LET nameErr == validateNameWithRegex(productCreate.Name, "product name is required")
        storeErr == validateNameWithRegex(productCreate.Store, "store name is required")
    IN  IF nameErr # nil THEN nameErr
        ELSE IF productCreate.Price <= 0
             THEN ErrorsNew("product price must be greater than zero")
        ELSE IF storeErr # nil THEN storeErr
        ELSE IF productCreate.Discount > MaxDiscount
             THEN ErrorsNew("discount must be between 0 and 70 percent")
        ELSE nil

\* Mutant: the store rule evaluated before the price rule.
validateProductCreate_StoreFirst(productCreate) ==
    LET nameErr == validateNameWithRegex(productCreate.Name, "product name is required")
        storeErr == validateNameWithRegex(productCreate.Store, "store name is required")
    IN  IF nameErr # nil THEN nameErr
        ELSE IF storeErr # nil THEN storeErr
        ELSE IF productCreate.Price <= 0
             THEN ErrorsNew("product price must be greater than zero")
        ELSE IF productCreate.Discount < 0 \/ productCreate.Discount > MaxDiscount
             THEN ErrorsNew("discount must be between 0 and 70 percent")
        ELSE nil

validateProductCreate(productCreate) ==
    LET nameErr == validateNameWithRegex(productCreate.Name, "product name is required")
        storeErr == validateNameWithRegex(productCreate.Store, "store name is required")
    IN  IF nameErr # nil THEN nameErr
        ELSE IF productCreate.Price <= 0
             THEN ErrorsNew("product price must be greater than zero")
        ELSE IF storeErr # nil THEN storeErr
        ELSE IF productCreate.Discount < 0 \/ productCreate.Discount > MaxDiscount
             THEN ErrorsNew("discount must be between 0 and 70 percent")
        ELSE nil

-----------------------------------------------------------------------------
(* Domain values *)

ZeroProduct ==
    [Id |-> 0, Name |-> <<>>, Price |-> 0, Description |-> "", Discount |-> 0,
     Store |-> <<>>, CategoryID |-> 0, ImageUrls |-> <<>>]

ProductCreate(name, price, description, discount, store, imageUrls, categoryId) ==
    [Name |-> name, Price |-> price, Description |-> description,
     Discount |-> discount, Store |-> store, ImageUrls |-> imageUrls,
     CategoryID |-> categoryId]

\* A fault is the failure of one statement of an operation: its kind names the
\* statement, at the 0-based position of the row (or image) it strikes, img the
\* 0-based position of the image row whose scan fails.
NoFault == [kind |-> "none", at |-> 0, img |-> 0]

Fault(kind, at) == [kind |-> kind, at |-> at, img |-> 0]

ImageFault(kind, at, img) == [kind |-> kind, at |-> at, img |-> img]

-----------------------------------------------------------------------------
(* The database: statements *)

DB == [products |-> products, product_images |-> product_images,
       products_id_seq |-> products_id_seq]

\* Mutant: the id computed as MAX(id) + 1 over the rows of the table instead
\* of drawn from the sequence.
InsertProduct_MaxIdPlusOne(db, product) ==
    LET productId == IF DOMAIN db.products = {} THEN 1
                     ELSE 1 + CHOOSE m \in DOMAIN db.products :
                                 \A i \in DOMAIN db.products : i <= m
        row == [name |-> product.Name, price |-> product.Price,
                description |-> product.Description, discount |-> product.Discount,
                store |-> product.Store, category_id |-> product.CategoryID]
    IN  [db EXCEPT !.products = [i \in DOMAIN db.products \cup {productId} |->
                                    IF i = productId THEN row ELSE db.products[i]],
                   !.products_id_seq = @ + 1]

\* INSERT INTO products (...) VALUES (...) RETURNING id
InsertProduct(db, product) ==
    LET productId == db.products_id_seq
        row == [name |-> product.Name, price |-> product.Price,
                description |-> product.Description, discount |-> product.Discount,
                store |-> product.Store, category_id |-> product.CategoryID]
    IN  [db EXCEPT !.products = [i \in DOMAIN db.products \cup {productId} |->
                                    IF i = productId THEN row ELSE db.products[i]],
                   !.products_id_seq = productId + 1]

\* Mutant: display_order written 1-based.
InsertImage_OneBased(db, productId, url, isMain, i) ==
    [db EXCEPT !.product_images = @ \cup
        {[product_id |-> productId, image_urls |-> url,
          is_main_image |-> isMain, display_order |-> i + 1]}]

\* INSERT INTO product_images (product_id, image_urls, is_main_image, display_order)
InsertImage(db, productId, url, isMain, i) ==
    [db EXCEPT !.product_images = @ \cup
        {[product_id |-> productId, image_urls |-> url,
          is_main_image |-> isMain, display_order |-> i]}]

\* Mutant: WHERE id <= $1 in place of WHERE id = $1.
DeleteProducts_UpTo(db, ids) ==
    LET gone == {i \in DOMAIN db.products : \E x \in ids : i <= x}
    IN  [db EXCEPT !.products = [i \in DOMAIN db.products \ gone |-> db.products[i]],
                   !.product_images = {r \in @ : r.product_id \notin gone}]

\* Mutant: the foreign key declared without ON DELETE CASCADE's effect.
DeleteProducts_NoCascade(db, ids) ==
    [db EXCEPT !.products = [i \in DOMAIN db.products \ ids |-> db.products[i]]]

\* DELETE FROM products WHERE id \in ids, with product_images.product_id
\* REFERENCES products(id) ON DELETE CASCADE
DeleteProducts(db, ids) ==
    [db EXCEPT !.products = [i \in DOMAIN db.products \ ids |-> db.products[i]],
               !.product_images = {r \in @ : r.product_id \notin ids}]

\* commandTag.RowsAffected() of a DELETE FROM products WHERE id \in ids
RowsAffected(db, ids) == Cardinality(DOMAIN db.products \cap ids)

RECURSIVE SortByDisplayOrder(_)
SortByDisplayOrder(rows) ==
    IF rows = {} THEN <<>>
    ELSE LET r == CHOOSE x \in rows : \A y \in rows : x.display_order <= y.display_order
         IN  <<r>> \o SortByDisplayOrder(rows \ {r})

\* SELECT image_urls FROM product_images WHERE product_id = $1 ORDER BY display_order
SelectImageUrls(db, productId) ==
    LET rows == SortByDisplayOrder({r \in db.product_images : r.product_id = productId})
    IN  [i \in 1..Len(rows) |-> rows[i].image_urls]

\* Scan of a products row into a domain.Product (ImageUrls not yet resolved)
ScanProduct(db, id) ==
    LET row == db.products[id]
    IN  [Id |-> id, Name |-> row.name, Price |-> row.price,
         Description |-> row.description, Discount |-> row.discount,
         Store |-> row.store, CategoryID |-> row.category_id, ImageUrls |-> <<>>]

-----------------------------------------------------------------------------
(* Product Store *)

RECURSIVE InsertImages(_, _, _, _, _)
InsertImages(db, productId, imageUrls, i, fault) ==
    IF i >= Len(imageUrls) THEN [db |-> db, err |-> nil]
    ELSE IF fault.kind = "image" /\ fault.at = i
         THEN [db |-> db, err |-> Errorf("failed to insert image: %w", 0, DbError)]
         ELSE InsertImages(InsertImage(db, productId, imageUrls[i + 1], i = 0, i),
                           productId, imageUrls, i + 1, fault)

\* Mutant: the inserts of one call undone when an image insert fails.
AddProduct_RolledBack(db, product, fault) ==
    IF fault.kind = "product"
    THEN [db |-> db, err |-> Errorf("failed to insert product: %w", 0, DbError)]
    ELSE LET r == InsertImages(InsertProduct(db, product), db.products_id_seq,
                               product.ImageUrls, 0, fault)
         IN  IF r.err # nil THEN [db |-> db, err |-> r.err] ELSE r

\* fault "product": the INSERT INTO products fails (connection lost, or a
\* constraint of the schema such as fk_products_category rejects the row);
\* fault "image" at i: the insert of imageUrls[i] fails. No statement is rolled back.
AddProduct(db, product, fault) ==
    IF fault.kind = "product"
    THEN [db |-> db, err |-> Errorf("failed to insert product: %w", 0, DbError)]
    ELSE InsertImages(InsertProduct(db, product), db.products_id_seq,
                      product.ImageUrls, 0, fault)

\* Mutant: the pgx.ErrNoRows case not told apart from other scan errors.
GetById_NoRowsUnchecked(db, productId, fault) ==
    IF fault.kind = "scan" \/ productId \notin DOMAIN db.products
    THEN [ret |-> ZeroProduct,
          err |-> Errorf("error while getting product with id %d: %w", productId, DbError)]
    ELSE IF fault.kind = "imageQuery"
    THEN [ret |-> ZeroProduct,
          err |-> Errorf("error querying images for product %d: %w", productId, DbError)]
    ELSE IF fault.kind = "imageScan" /\ SelectImageUrls(db, productId) # <<>>
    THEN [ret |-> ZeroProduct,
          err |-> Errorf("error scanning image url for product %d: %w", productId, DbError)]
    ELSE [ret |-> [ScanProduct(db, productId) EXCEPT
                      !.ImageUrls = SelectImageUrls(db, productId)],
          err |-> nil]

GetById(db, productId, fault) ==
    IF fault.kind = "scan"
    THEN [ret |-> ZeroProduct,
          err |-> Errorf("error while getting product with id %d: %w", productId, DbError)]
    ELSE IF productId \notin DOMAIN db.products
    THEN [ret |-> ZeroProduct,
          err |-> Errorf("product not found with id %d: %w", productId, ErrNoRows)]
    ELSE IF fault.kind = "imageQuery"
    THEN [ret |-> ZeroProduct,
          err |-> Errorf("error querying images for product %d: %w", productId, DbError)]
    ELSE IF fault.kind = "imageScan" /\ SelectImageUrls(db, productId) # <<>>
    THEN [ret |-> ZeroProduct,
          err |-> Errorf("error scanning image url for product %d: %w", productId, DbError)]
    ELSE [ret |-> [ScanProduct(db, productId) EXCEPT
                      !.ImageUrls = SelectImageUrls(db, productId)],
          err |-> nil]

\* Mutant: RowsAffected() of the DELETE not checked.
DeleteById_NoRowsCheck(db, productId, fault) ==
    IF fault.kind = "exec"
    THEN [db |-> db, rows |-> 0,
          err |-> Errorf("error while deleting product with id %d: %w", productId, DbError)]
    ELSE [db |-> DeleteProducts(db, {productId}), rows |-> RowsAffected(db, {productId}),
          err |-> nil]

DeleteById(db, productId, fault) ==
    IF fault.kind = "exec"
    THEN [db |-> db, rows |-> 0,
          err |-> Errorf("error while deleting product with id %d: %w", productId, DbError)]
    ELSE IF RowsAffected(db, {productId}) = 0
    THEN [db |-> db, rows |-> 0,
          err |-> Errorf("product with id %d not found", productId, "")]
    ELSE [db |-> DeleteProducts(db, {productId}), rows |-> RowsAffected(db, {productId}),
          err |-> nil]

\* Mutant: RowsAffected() not checked.
DeleteAllProducts_NoRowsCheck(db, fault) ==
    IF fault.kind = "exec"
    THEN [db |-> db, rows |-> 0,
          err |-> Errorf("error while deleting all products: %w", 0, DbError)]
    ELSE [db |-> DeleteProducts(db, DOMAIN db.products),
          rows |-> RowsAffected(db, DOMAIN db.products), err |-> nil]

DeleteAllProducts(db, fault) ==
    IF fault.kind = "exec"
    THEN [db |-> db, rows |-> 0,
          err |-> Errorf("error while deleting all products: %w", 0, DbError)]
    ELSE IF RowsAffected(db, DOMAIN db.products) = 0
    THEN [db |-> db, rows |-> 0, err |-> ErrorsNew("products not found for deletion")]
    ELSE [db |-> DeleteProducts(db, DOMAIN db.products),
          rows |-> RowsAffected(db, DOMAIN db.products), err |-> nil]

\* Mutant: SET price = $1, discount = $1.
UpdatePrice_AlsoDiscount(db, productId, newPrice, fault) ==
    IF fault.kind = "exec"
    THEN [db |-> db,
          err |-> Errorf("error while updating product price with id %d: %w", productId, DbError)]
    ELSE [db |-> [db EXCEPT !.products =
                     [i \in DOMAIN @ |-> IF i = productId
                                         THEN [@[i] EXCEPT !.price = newPrice,
                                                           !.discount = newPrice]
                                         ELSE @[i]]],
          err |-> nil]

\* Mutant: RowsAffected() of the UPDATE checked, as DeleteById checks it.
UpdatePrice_RowsChecked(db, productId, newPrice, fault) ==
    IF fault.kind = "exec"
    THEN [db |-> db,
          err |-> Errorf("error while updating product price with id %d: %w", productId, DbError)]
    ELSE IF RowsAffected(db, {productId}) = 0
    THEN [db |-> db, err |-> Errorf("product with id %d not found", productId, "")]
    ELSE [db |-> [db EXCEPT !.products =
                     [i \in DOMAIN @ |-> IF i = productId
                                         THEN [@[i] EXCEPT !.price = newPrice]
                                         ELSE @[i]]],
          err |-> nil]

\* Mutant: SET price = price + $1.
UpdatePrice_Relative(db, productId, newPrice, fault) ==
    IF fault.kind = "exec"
    THEN [db |-> db,
          err |-> Errorf("error while updating product price with id %d: %w", productId, DbError)]
    ELSE [db |-> [db EXCEPT !.products =
                     [i \in DOMAIN @ |-> IF i = productId
                                         THEN [@[i] EXCEPT !.price = @ + newPrice]
                                         ELSE @[i]]],
          err |-> nil]

UpdatePrice(db, productId, newPrice, fault) ==
    IF fault.kind = "exec"
    THEN [db |-> db,
          err |-> Errorf("error while updating product price with id %d: %w", productId, DbError)]
    ELSE [db |-> [db EXCEPT !.products =
                     [i \in DOMAIN @ |-> IF i = productId
                                         THEN [@[i] EXCEPT !.price = newPrice]
                                         ELSE @[i]]],
          err |-> nil]

RECURSIVE SortedIds(_)
SortedIds(ids) ==
    IF ids = {} THEN <<>>
    ELSE LET m == CHOOSE x \in ids : \A y \in ids : x <= y
         IN  <<m>> \o SortedIds(ids \ {m})

RECURSIVE extractLoop(_, _, _, _, _)
extractLoop(db, productRows, k, fault, acc) ==
    IF fault.kind = "rowsErr" /\ fault.at = k
    THEN [ret |-> <<>>, err |-> Errorf("error during row iteration: %w", 0, DbError)]
    ELSE IF k >= Len(productRows) THEN [ret |-> acc, err |-> nil]
    ELSE IF fault.kind = "scan" /\ fault.at = k
    THEN [ret |-> <<>>, err |-> Errorf("error scanning product row: %w", 0, DbError)]
    ELSE IF fault.kind = "imageQuery" /\ fault.at = k
    THEN [ret |-> <<>>,
          err |-> Errorf("error querying images for product %d: %w", productRows[k + 1], DbError)]
    ELSE IF /\ fault.kind = "imageScan" /\ fault.at = k
            /\ fault.img < Len(SelectImageUrls(db, productRows[k + 1]))
    THEN [ret |-> <<>>, err |-> Errorf("error scanning image url: %w", 0, DbError)]
    ELSE extractLoop(db, productRows, k + 1, fault,
             Append(acc, [ScanProduct(db, productRows[k + 1]) EXCEPT
                             !.ImageUrls = SelectImageUrls(db, productRows[k + 1])]))

RECURSIVE extractLoop_Partial(_, _, _, _, _)
extractLoop_Partial(db, productRows, k, fault, acc) ==
    IF k >= Len(productRows) \/ (fault.kind # "none" /\ fault.at = k)
    THEN [ret |-> acc, err |-> nil]
    ELSE extractLoop_Partial(db, productRows, k + 1, fault,
             Append(acc, [ScanProduct(db, productRows[k + 1]) EXCEPT
                             !.ImageUrls = SelectImageUrls(db, productRows[k + 1])]))

\* Mutant: on a failure, the products resolved so far returned without error.
extractProductFromRows_Partial(db, productRows, fault) ==
    extractLoop_Partial(db, productRows, 0, fault, <<>>)

\* productRows: the ids of the selected rows, in the order the query yields them
extractProductFromRows(db, productRows, fault) ==
    extractLoop(db, productRows, 0, fault, <<>>)

\* Mutant: the error of the product query not looked at; the rows of the
\* table are read all the same.
GettAllProducts_QueryErrorIgnored(db, order, fault) ==
    LET r == extractProductFromRows(db, IF fault.kind = "query"
                                        THEN SortedIds(DOMAIN db.products) ELSE order, fault)
    IN  IF r.err # nil THEN <<>> ELSE r.ret

\* SELECT ... FROM products has no ORDER BY: order is the order the store
\* yields the rows in, a permutation of the ids of the table.
GettAllProducts(db, order, fault) ==
    IF fault.kind = "query" THEN <<>>
    ELSE LET r == extractProductFromRows(db, order, fault)
         IN  IF r.err # nil THEN <<>> ELSE r.ret

RemoveAt(s, j) == [i \in 1..(Len(s) - 1) |-> IF i <= j THEN s[i] ELSE s[i + 1]]

RECURSIVE storeLoop(_, _, _, _, _)
storeLoop(db, productRows, k, fault, acc) ==
    IF k >= Len(productRows) \/ (fault.kind = "rowsErr" /\ fault.at = k) THEN acc
    ELSE IF fault.kind \in {"scan", "imageQuery"} /\ fault.at = k
    THEN storeLoop(db, productRows, k + 1, fault, acc)
    ELSE LET urls == SelectImageUrls(db, productRows[k + 1])
             imageUrls == IF /\ fault.kind = "imageScan" /\ fault.at = k
                             /\ fault.img < Len(urls)
                          THEN RemoveAt(urls, fault.img)
                          ELSE urls
         IN  storeLoop(db, productRows, k + 1, fault,
                 Append(acc, [ScanProduct(db, productRows[k + 1]) EXCEPT
                                 !.ImageUrls = imageUrls]))

\* Mutant: the rows handled as GettAllProducts handles them, any failure
\* emptying the result.
GetAllProductsByStore_AllOrNothing(db, storeName, order, fault) ==
    IF fault.kind = "query" THEN <<>>
    ELSE LET r == extractProductFromRows(db,
                     SelectSeq(order, LAMBDA id : /\ id \in DOMAIN db.products
                                                  /\ db.products[id].store = storeName),
                     fault)
         IN  IF r.err # nil THEN <<>> ELSE r.ret

\* order: the order the store yields the rows of the table in; the query
\* keeps those WHERE store = $1
GetAllProductsByStore(db, storeName, order, fault) ==
    IF fault.kind = "query" THEN <<>>
    ELSE storeLoop(db, SelectSeq(order, LAMBDA id : /\ id \in DOMAIN db.products
                                                    /\ db.products[id].store = storeName),
                   0, fault, <<>>)

RECURSIVE categoryLoop(_, _, _, _, _)
categoryLoop(db, rows, k, fault, acc) ==
    IF k >= Len(rows) \/ (fault.kind = "rowsErr" /\ fault.at = k)
    THEN [ret |-> acc, err |-> nil]
    ELSE IF fault.kind = "scan" /\ fault.at = k
    THEN [ret |-> <<>>, err |-> Errorf("error scanning product: %w", 0, DbError)]
    ELSE IF fault.kind = "imageQuery" /\ fault.at = k
    THEN [ret |-> <<>>,
          err |-> Errorf("error querying images for product %d: %w", rows[k + 1], DbError)]
    ELSE IF /\ fault.kind = "imageScan" /\ fault.at = k
            /\ fault.img < Len(SelectImageUrls(db, rows[k + 1]))
    THEN [ret |-> <<>>,
          err |-> Errorf("error scanning image url for product %d: %w", rows[k + 1], DbError)]
    ELSE categoryLoop(db, rows, k + 1, fault,
             Append(acc, [ScanProduct(db, rows[k + 1]) EXCEPT
                             !.ImageUrls = SelectImageUrls(db, rows[k + 1])]))

\* order: the order the store yields the rows of the table in; the query
\* keeps those WHERE category_id = $1. rows.Err() is not looked at after the loop.
GetProductsByCategoryId(db, categoryId, order, fault) ==
    IF fault.kind = "query"
    THEN [ret |-> <<>>,
          err |-> Errorf("error while getting products by category id %d: %w",
                         categoryId, DbError)]
    ELSE categoryLoop(db, SelectSeq(order, LAMBDA id : /\ id \in DOMAIN db.products
                                                       /\ db.products[id].category_id = categoryId),
                      0, fault, <<>>)

-----------------------------------------------------------------------------
(* Product Service *)

\* Mutant: the store called before the validation result is looked at.
Add_StoreFirst(db, productCreate, fault) ==
    LET validateError == validateProductCreate(productCreate)
        product == [ZeroProduct EXCEPT !.Name = productCreate.Name,
                                       !.Price = productCreate.Price,
                                       !.Description = productCreate.Description,
                                       !.Discount = productCreate.Discount,
                                       !.Store = productCreate.Store,
                                       !.ImageUrls = productCreate.ImageUrls]
        r == AddProduct(db, product, fault)
    IN  IF validateError # nil
        THEN [db |-> r.db, err |-> validateError, calls |-> <<product>>]
        ELSE [db |-> r.db, err |-> r.err, calls |-> <<product>>]

Add(db, productCreate, fault) ==
    LET validateError == validateProductCreate(productCreate)
        product == [ZeroProduct EXCEPT !.Name = productCreate.Name,
                                       !.Price = productCreate.Price,
                                       !.Description = productCreate.Description,
                                       !.Discount = productCreate.Discount,
                                       !.Store = productCreate.Store,
                                       !.ImageUrls = productCreate.ImageUrls]
        r == AddProduct(db, product, fault)
    IN  IF validateError # nil
        THEN [db |-> db, err |-> validateError, calls |-> <<>>]
        ELSE [db |-> r.db, err |-> r.err, calls |-> <<product>>]

-----------------------------------------------------------------------------
(* Inputs *)

Ids == 0..MaxProducts

NewPrices == {0, 3}

Stores == {StoreA, StoreB}

ValidCandidates ==
    {ProductCreate(NameOk, 3, "d", 0, StoreA, imgs, 1) : imgs \in ImageSeqs}

InvalidCandidates ==
    LET imgs == SubSeq(UrlList, 1, MaxImages)
    IN  {ProductCreate(<<>>, 3, "d", 0, StoreA, imgs, 1),
         ProductCreate(NameOk, 0, "d", 0, StoreA, imgs, 1),
         ProductCreate(NameOk, -1, "d", MaxDiscount + 1, StoreBad, imgs, 1),
         ProductCreate(NameOk, 3, "d", 0, <<>>, imgs, 1),
         ProductCreate(NameOk, 3, "d", -1, StoreA, imgs, 1),
         ProductCreate(NameOk, 3, "d", MaxDiscount + 1, StoreA, imgs, 1)}

Candidates == ValidCandidates \cup InvalidCandidates

\* Products handed to the store directly, as the repository tests do.
SeedProducts ==
    {[ZeroProduct EXCEPT !.Name = <<"t">>, !.Price = 3, !.Discount = MaxDiscount,
                         !.Store = StoreB, !.CategoryID = 2, !.ImageUrls = <<"c">>]}

AddFaults(imageUrls) ==
    {NoFault, Fault("product", 0)} \cup {Fault("image", i) : i \in 0..(Len(imageUrls) - 1)}

\* A statement fails only if the operation reaches it.
GetFaults(db, productId) ==
    {NoFault, Fault("scan", 0)}
    \cup (IF productId \in DOMAIN db.products THEN {Fault("imageQuery", 0)} ELSE {})
    \cup (IF \E r \in db.product_images : r.product_id = productId
          THEN {Fault("imageScan", 0)} ELSE {})

ExecFaults == {NoFault, Fault("exec", 0)}

QueryFaults == {NoFault, Fault("query", 0)}

Orders(S) ==
    {o \in [1..Cardinality(S) -> S] : \A i, j \in 1..Cardinality(S) : o[i] = o[j] => i = j}

-----------------------------------------------------------------------------
(* The state machine: one action per call of an operation *)

\* last: the most recent call: the operation, its arguments, the fault that
\* struck it, and what it returned.
NoArg ==
    [productId |-> 0, newPrice |-> 0, storeName |-> <<>>, order |-> <<>>,
     product |-> ZeroProduct, productCreate |-> ProductCreate(<<>>, 0, "", 0, <<>>, <<>>, 0),
     param |-> <<>>, newPriceParam |-> <<>>]

\* product: the product returned; products: the list returned; calls: the
\* products the service handed to the store's AddProduct; rows: RowsAffected()
\* status: the HTTP status a handler answered with (0: no answer written);
\* invoked: whether a handler called the service.
NoRet ==
    [product |-> ZeroProduct, products |-> <<>>, calls |-> <<>>, rows |-> 0, status |-> 0,
     invoked |-> FALSE]

\* The requests that can be in progress at once, each on its own goroutine.
Procs == {"r1", "r2", "r3"}

\* inflight[p]: the repository call request p is executing (empty where
\* calls are made one at a time): the operation and
\* its arguments, the statement it executes next (pc), the id the product
\* insert returned or the id asked for (productId), the index of the next
\* image (i), what it has read or returned so far (ret, err), and the
\* RowsAffected() of the command tag of its UPDATE or DELETE (rows).
NoCall ==
    [op |-> "idle", pc |-> "idle", productId |-> 0, newPrice |-> 0,
     product |-> ZeroProduct, i |-> 0, ret |-> ZeroProduct, err |-> nil, rows |-> 0]

Init ==
    /\ products = <<>>
    /\ product_images = {}
    /\ products_id_seq = 1
    /\ inflight = <<>>
    /\ last = [op |-> "init", arg |-> NoArg, fault |-> NoFault, err |-> nil, ret |-> NoRet]

Store(db) ==
    /\ products' = db.products
    /\ product_images' = db.product_images
    /\ products_id_seq' = db.products_id_seq
    /\ inflight' = inflight

CallAdd ==
    \E c \in Candidates :
      \E f \in IF validateProductCreate(c) = nil THEN AddFaults(c.ImageUrls) ELSE {NoFault} :
        LET r == Add(DB, c, f)
        IN  /\ r.db.products_id_seq <= MaxProducts + 1
            /\ Store(r.db)
            /\ last' = [op |-> "Add", arg |-> [NoArg EXCEPT !.productCreate = c],
                        fault |-> f, err |-> r.err,
                        ret |-> [NoRet EXCEPT !.calls = r.calls]]

CallAddProduct ==
    \E p \in SeedProducts :
      \E f \in AddFaults(p.ImageUrls) :
        LET r == AddProduct(DB, p, f)
        IN  /\ r.db.products_id_seq <= MaxProducts + 1
            /\ Store(r.db)
            /\ last' = [op |-> "AddProduct", arg |-> [NoArg EXCEPT !.product = p],
                        fault |-> f, err |-> r.err, ret |-> NoRet]

CallGetById ==
    \E id \in Ids :
      \E f \in GetFaults(DB, id) :
        LET r == GetById(DB, id, f)
        IN  /\ last' = [op |-> "GetById", arg |-> [NoArg EXCEPT !.productId = id],
                        fault |-> f, err |-> r.err,
                        ret |-> [NoRet EXCEPT !.product = r.ret]]
            /\ UNCHANGED <<products, product_images, products_id_seq, inflight>>

CallDeleteById ==
    \E id \in Ids :
      \E f \in ExecFaults :
        LET r == DeleteById(DB, id, f)
        IN  /\ Store(r.db)
            /\ last' = [op |-> "DeleteById", arg |-> [NoArg EXCEPT !.productId = id],
                        fault |-> f, err |-> r.err,
                        ret |-> [NoRet EXCEPT !.rows = r.rows]]

CallDeleteAllProducts ==
    \E f \in ExecFaults :
        LET r == DeleteAllProducts(DB, f)
        IN  /\ Store(r.db)
            /\ last' = [op |-> "DeleteAllProducts", arg |-> NoArg, fault |-> f,
                        err |-> r.err, ret |-> [NoRet EXCEPT !.rows = r.rows]]

CallUpdatePrice ==
    \E id \in Ids :
      \E newPrice \in NewPrices :
        \E f \in ExecFaults :
          LET r == UpdatePrice(DB, id, newPrice, f)
          IN  /\ Store(r.db)
              /\ last' = [op |-> "UpdatePrice",
                          arg |-> [NoArg EXCEPT !.productId = id, !.newPrice = newPrice],
                          fault |-> f, err |-> r.err, ret |-> NoRet]

CallGettAllProducts ==
    \E f \in QueryFaults :
      \E order \in IF f = NoFault THEN Orders(DOMAIN products) ELSE {<<>>} :
        /\ last' = [op |-> "GettAllProducts", arg |-> [NoArg EXCEPT !.order = order],
                    fault |-> f, err |-> nil,
                    ret |-> [NoRet EXCEPT !.products = GettAllProducts(DB, order, f)]]
        /\ UNCHANGED <<products, product_images, products_id_seq, inflight>>

CallGetAllProductsByStore ==
    \E storeName \in Stores :
      \E f \in QueryFaults :
        \E order \in IF f = NoFault
                      THEN Orders({id \in DOMAIN products : products[id].store = storeName})
                      ELSE {<<>>} :
          /\ last' = [op |-> "GetAllProductsByStore",
                      arg |-> [NoArg EXCEPT !.storeName = storeName, !.order = order],
                      fault |-> f, err |-> nil,
                      ret |-> [NoRet EXCEPT !.products =
                                  GetAllProductsByStore(DB, storeName, order, f)]]
          /\ UNCHANGED <<products, product_images, products_id_seq, inflight>>

Next ==
    \/ CallAdd
    \/ CallAddProduct
    \/ CallGetById
    \/ CallDeleteById
    \/ CallDeleteAllProducts
    \/ CallUpdatePrice
    \/ CallGettAllProducts
    \/ CallGetAllProductsByStore

Spec == Init /\ [][Next]_vars

-----------------------------------------------------------------------------
(* The validation rules on their own: every candidate of a grid over the    *)
(* fields the rules read is drawn, then validated.                          *)

GridNames == {<<>>, NameBad, NameOk, <<" ">>}
GridPrices == {-1, 0, 1}
GridStores == {<<>>, StoreBad, StoreA}
GridDiscounts == {-1, 0, MaxDiscount, MaxDiscount + 1}

GridCandidates ==
    {ProductCreate(n, p, "d", d, s, <<>>, 1) :
        n \in GridNames, p \in GridPrices, d \in GridDiscounts, s \in GridStores}

InitValidate ==
    /\ products = <<>>
    /\ product_images = {}
    /\ products_id_seq = 1
    /\ inflight = <<>>
    /\ \E c \in GridCandidates :
         last = [op |-> "candidate", arg |-> [NoArg EXCEPT !.productCreate = c],
                 fault |-> NoFault, err |-> nil, ret |-> NoRet]

CallValidateProductCreate ==
    /\ last.op = "candidate"
    /\ last' = [last EXCEPT !.op = "validateProductCreate",
                            !.err = validateProductCreate(last.arg.productCreate)]
    /\ UNCHANGED <<products, product_images, products_id_seq, inflight>>

NextValidate == CallValidateProductCreate

SpecValidate == InitValidate /\ [][NextValidate]_vars

-----------------------------------------------------------------------------
(* Claims *)

Allowed == Letters \cup Numbers \cup Whitespace

WellFormed(text) == text # <<>> /\ \A i \in 1..Len(text) : text[i] \in Allowed

PriceError == ErrorsNew("product price must be greater than zero")

DiscountError == ErrorsNew("discount must be between 0 and 70 percent")

NotFoundFormat == "product not found with id %d: %w"

\* C1: an Add of a candidate with a valid name and price <= 0 returns the price
\* error and leaves the products and product_images tables as they were.
C1_PriceRejected ==
    [][(/\ last'.op = "Add"
        /\ WellFormed(last'.arg.productCreate.Name)
        /\ last'.arg.productCreate.Price <= 0)
       => (/\ last'.err = PriceError
           /\ products' = products
           /\ product_images' = product_images)]_vars

C1_Witness ==
    /\ last.op = "Add"
    /\ WellFormed(last.arg.productCreate.Name)
    /\ last.arg.productCreate.Price <= 0
    /\ last.err = PriceError
    /\ products # <<>>
    /\ product_images # {}

ProductCount(db) ==
    {Len(GettAllProducts(db, o, NoFault)) : o \in Orders(DOMAIN db.products)}

\* C2: an Add of a candidate with valid name, price and store and a discount
\* below 0 or above 70 returns exactly the discount error, and GettAllProducts
\* returns as many products after the call as before it.
C2_DiscountRejected ==
    [][(/\ last'.op = "Add"
        /\ WellFormed(last'.arg.productCreate.Name)
        /\ last'.arg.productCreate.Price > 0
        /\ WellFormed(last'.arg.productCreate.Store)
        /\ (last'.arg.productCreate.Discount < 0 \/ last'.arg.productCreate.Discount > 70))
       => (/\ last'.err = DiscountError
           /\ ProductCount(DB') = ProductCount(DB))]_vars

C2_Witness ==
    /\ last.op = "Add"
    /\ WellFormed(last.arg.productCreate.Name)
    /\ last.arg.productCreate.Price > 0
    /\ WellFormed(last.arg.productCreate.Store)
    /\ last.arg.productCreate.Discount > 70
    /\ last.err = DiscountError
    /\ ProductCount(DB) = {MaxProducts}

\* The product a candidate describes, under the id the store assigned.
AsProduct(productCreate, id) ==
    [Id |-> id, Name |-> productCreate.Name, Price |-> productCreate.Price,
     Description |-> productCreate.Description, Discount |-> productCreate.Discount,
     Store |-> productCreate.Store, CategoryID |-> productCreate.CategoryID,
     ImageUrls |-> productCreate.ImageUrls]

\* C3: after a successful Add of a valid candidate, GetById of the id the store
\* assigned returns the candidate in every field (name, price, description,
\* discount, store, category id), the image URLs in the order supplied.
C3_AddThenGetById ==
    (last.op = "Add" /\ last.err = nil)
    => GetById(DB, products_id_seq - 1, NoFault) =
          [ret |-> AsProduct(last.arg.productCreate, products_id_seq - 1), err |-> nil]

\* The state the claim fails in: the Add succeeded, the candidate named a
\* category, and the stored product equals the candidate in every field but
\* the category id, which is the zero value.
C3_Witness ==
    /\ last.op = "Add"
    /\ last.err = nil
    /\ last.arg.productCreate.CategoryID # 0
    /\ last.arg.productCreate.ImageUrls # <<>>
    /\ GetById(DB, products_id_seq - 1, NoFault) =
          [ret |-> [AsProduct(last.arg.productCreate, products_id_seq - 1) EXCEPT
                       !.CategoryID = 0],
           err |-> nil]

\* The image URLs the last add was given.
C4_Urls ==
    IF last.op = "Add" THEN last.arg.productCreate.ImageUrls ELSE last.arg.product.ImageUrls

\* C4: after a successful AddProduct with n image URLs the product has exactly
\* n image rows, the one for position i with display_order = i and
\* is_main_image = (i = 0).
C4_ImageRows ==
    ((last.op = "AddProduct" \/ (last.op = "Add" /\ last.ret.calls # <<>>)) /\ last.err = nil)
    => LET productId == products_id_seq - 1
           urls == C4_Urls
           rows == {r \in product_images : r.product_id = productId}
       IN  /\ Cardinality(rows) = Len(urls)
           /\ rows = {[product_id |-> productId, image_urls |-> urls[i + 1],
                       is_main_image |-> (i = 0), display_order |-> i] :
                         i \in 0..(Len(urls) - 1)}
           /\ {r.display_order : r \in rows} = 0..(Len(urls) - 1)
           /\ Len(urls) > 0 => Cardinality({r \in rows : r.is_main_image}) = 1

C4_Witness ==
    /\ last.op = "AddProduct" \/ last.op = "Add"
    /\ last.err = nil
    /\ Len(C4_Urls) = MaxImages
    /\ Cardinality({r \in product_images : r.product_id = products_id_seq - 1}) = MaxImages

\* C5: GetById of an id that has no product row (never assigned, or deleted),
\* the query itself not failing, returns the zero product and the error
\* "product not found with id <id>" for the requested id, and changes no row.
C5_GetByIdNotFound ==
    [][(/\ last'.op = "GetById"
        /\ last'.arg.productId \notin DOMAIN products
        /\ last'.fault = NoFault)
       => (/\ last'.ret.product = ZeroProduct
           /\ last'.err.msg = NotFoundFormat
           /\ last'.err.id = last'.arg.productId
           /\ products' = products
           /\ product_images' = product_images)]_vars

C5_Witness ==
    /\ last.op = "GetById"
    /\ last.arg.productId \notin DOMAIN products
    /\ last.arg.productId >= 1 /\ last.arg.productId < products_id_seq
    /\ last.err.msg = NotFoundFormat
    /\ products # <<>>

\* C6: DeleteById of an existing id, the statement not failing, returns no
\* error and removes the product row and every image row of that product: a
\* GetById of the id then fails with not-found and no image row names the id.
C6_DeleteByIdCascades ==
    [][(/\ last'.op = "DeleteById"
        /\ last'.arg.productId \in DOMAIN products
        /\ last'.fault = NoFault)
       => (/\ last'.err = nil
           /\ last'.arg.productId \notin DOMAIN products'
           /\ \A r \in product_images' : r.product_id # last'.arg.productId
           /\ GetById(DB', last'.arg.productId, NoFault).err =
                 Errorf(NotFoundFormat, last'.arg.productId, ErrNoRows))]_vars

C6_Witness ==
    /\ last.op = "DeleteById"
    /\ last.err = nil
    /\ last.arg.productId \notin DOMAIN products
    /\ products # <<>>
    /\ product_images # {}

\* C7: UpdatePrice(X, p) of an existing id X, the statement not failing,
\* followed by GetById(X) returns the product GetById(X) returned before with
\* the price replaced by p: id, name, description, discount, store, category
\* id and images as before.
C7_UpdatePriceFrame ==
    [][(/\ last'.op = "UpdatePrice"
        /\ last'.arg.productId \in DOMAIN products
        /\ last'.fault = NoFault)
       => (/\ last'.err = nil
           /\ GetById(DB', last'.arg.productId, NoFault) =
                 [ret |-> [GetById(DB, last'.arg.productId, NoFault).ret EXCEPT
                              !.Price = last'.arg.newPrice],
                  err |-> nil])]_vars

C7_Witness ==
    /\ last.op = "UpdatePrice"
    /\ last.err = nil
    /\ last.arg.productId \in DOMAIN products
    /\ GetById(DB, last.arg.productId, NoFault).ret.Price = 0
    /\ GetById(DB, last.arg.productId, NoFault).ret.ImageUrls # <<>>

\* The rules of the validation contract, in their order.
C8_Rules(c) ==
    <<[fails |-> c.Name = <<>>,
       err |-> ErrorsNew("product name is required")],
      [fails |-> c.Name # <<>> /\ \E i \in 1..Len(c.Name) : c.Name[i] \notin Allowed,
       err |-> ErrorsNew("contains invalid characters (only alphanumeric and space allowed)")],
      [fails |-> c.Price <= 0,
       err |-> PriceError],
      [fails |-> c.Store = <<>>,
       err |-> ErrorsNew("store name is required")],
      [fails |-> c.Store # <<>> /\ \E i \in 1..Len(c.Store) : c.Store[i] \notin Allowed,
       err |-> ErrorsNew("contains invalid characters (only alphanumeric and space allowed)")],
      [fails |-> c.Discount < 0 \/ c.Discount > 70,
       err |-> DiscountError]>>

C8_Failing(c) == {i \in 1..Len(C8_Rules(c)) : C8_Rules(c)[i].fails}

\* C8: validateProductCreate returns the error of the first failing rule in the
\* order name, price, store, discount, and valid exactly when no rule fails.
C8_FirstFailingRule ==
    last.op = "validateProductCreate"
    => LET failing == C8_Failing(last.arg.productCreate)
       IN  IF failing = {} THEN last.err = nil
           ELSE /\ last.err # nil
                /\ last.err = C8_Rules(last.arg.productCreate)[CHOOSE i \in failing :
                                                    \A j \in failing : i <= j].err

C8_Witness ==
    /\ last.op = "validateProductCreate"
    /\ Cardinality(C8_Failing(last.arg.productCreate)) >= 3
    /\ last.arg.productCreate.Price <= 0
    /\ last.err = PriceError

\* C9: Add does not invoke the store when a validation rule fails and returns
\* the rule's error; otherwise it invokes AddProduct once and returns exactly
\* what AddProduct returns.
C9_ValidateBeforeStore ==
    [][last'.op = "Add"
       => IF C8_Failing(last'.arg.productCreate) # {}
          THEN /\ last'.ret.calls = <<>>
               /\ last'.err # nil
               /\ DB' = DB
          ELSE /\ Len(last'.ret.calls) = 1
               /\ last'.err = AddProduct(DB, last'.ret.calls[1], last'.fault).err
               /\ DB' = AddProduct(DB, last'.ret.calls[1], last'.fault).db]_vars

C9_Witness ==
    /\ last.op = "Add"
    /\ Len(last.ret.calls) = 1
    /\ last.err # nil
    /\ products # <<>>

NothingToDelete == ErrorsNew("products not found for deletion")

\* C10: DeleteAllProducts on a table holding products returns no error and
\* leaves no product (GettAllProducts is empty) and no image row; called again
\* right after, it returns "products not found for deletion" and the tables
\* stay empty.
C10_DeleteAllTwice ==
    [][(last'.op = "DeleteAllProducts" /\ last'.fault = NoFault)
       => /\ products # <<>>
             => (/\ last'.err = nil
                 /\ products' = <<>>
                 /\ product_images' = {}
                 /\ GettAllProducts(DB', <<>>, NoFault) = <<>>)
          /\ (last.op = "DeleteAllProducts" /\ last.err = nil)
             => (/\ last'.err = NothingToDelete
                 /\ products' = <<>>
                 /\ product_images' = {})]_vars

C10_Witness ==
    /\ last.op = "DeleteAllProducts"
    /\ last.err = NothingToDelete
    /\ products = <<>>
    /\ product_images = {}
    /\ products_id_seq > 1

\* The products a GetAllProductsByStore(storeName) has to return.
Matching(db, storeName) == {id \in DOMAIN db.products : db.products[id].store = storeName}

\* The list holds exactly the products of ids, each once, each as GetById reads it.
ExactlyProducts(db, list, ids) ==
    /\ Len(list) = Cardinality(ids)
    /\ {list[i].Id : i \in 1..Len(list)} = ids
    /\ \A i \in 1..Len(list) : list[i] = GetById(db, list[i].Id, NoFault).ret

Ascending(list) == \A i, j \in 1..Len(list) : i < j => list[i].Id < list[j].Id

\* C11: GetAllProductsByStore(s), no statement failing, returns exactly the
\* products whose store equals s, each with its images, in ascending id order.
C11_ByStoreExactAscending ==
    (last.op = "GetAllProductsByStore" /\ last.fault = NoFault)
    => /\ ExactlyProducts(DB, last.ret.products, Matching(DB, last.arg.storeName))
       /\ Ascending(last.ret.products)

\* The part of C11 the code keeps: exactly the matching products, in the order
\* the store yields the rows.
C11_ByStoreExact ==
    (last.op = "GetAllProductsByStore" /\ last.fault = NoFault)
    => ExactlyProducts(DB, last.ret.products, Matching(DB, last.arg.storeName))

\* The state C11 fails in: both products of a store returned, the later id first.
C11_Witness ==
    /\ last.op = "GetAllProductsByStore"
    /\ last.fault = NoFault
    /\ Len(last.ret.products) = 2
    /\ last.ret.products[1].Id > last.ret.products[2].Id
    /\ ExactlyProducts(DB, last.ret.products, Matching(DB, last.arg.storeName))

-----------------------------------------------------------------------------
(* Concurrent requests: every SQL statement is atomic, a call of several
   statements is not (no transaction), and the statements of the calls in
   progress interleave in any order. Each request makes one repository call. *)

\* Mutant: product_images.product_id declared without REFERENCES products(id).
ExecInsertImage_NoForeignKey(db, productId, url, isMain, i) ==
    [db |-> InsertImage(db, productId, url, isMain, i), err |-> nil]

\* The image INSERT as the store executes it: product_id REFERENCES
\* products(id), so the row is refused when the product row is not there.
ExecInsertImage(db, productId, url, isMain, i) ==
    IF productId \in DOMAIN db.products
    THEN [db |-> InsertImage(db, productId, url, isMain, i), err |-> nil]
    ELSE [db |-> db, err |-> Errorf("failed to insert image: %w", 0, DbError)]

ConcProducts ==
    SeedProducts \cup
    {[ZeroProduct EXCEPT !.Name = NameOk, !.Price = 3, !.Description = "d",
                         !.Store = StoreA, !.CategoryID = 1,
                         !.ImageUrls = SubSeq(UrlList, 1, MaxImages)]}

ConcIds == 1..MaxProducts

StoreConc(db) ==
    /\ products' = db.products
    /\ product_images' = db.product_images
    /\ products_id_seq' = db.products_id_seq
    /\ last' = last

\* AddProduct, first statement: the product insert returning the id.
StartAddProduct(p) ==
    /\ inflight[p].op = "idle"
    /\ products_id_seq <= MaxProducts
    /\ \E product \in ConcProducts :
         /\ StoreConc(InsertProduct(DB, product))
         /\ inflight' = [inflight EXCEPT ![p] =
               [NoCall EXCEPT !.op = "AddProduct", !.product = product,
                              !.productId = products_id_seq,
                              !.pc = IF product.ImageUrls = <<>> THEN "done" ELSE "image"]]

\* Mutant: the product id kept in a field shared by the requests (the id of
\* the latest product insert) instead of the local variable of the call.
StepInsertImage_SharedId(p) ==
    /\ inflight[p].pc = "image"
    /\ LET c == inflight[p]
           r == ExecInsertImage(DB, products_id_seq - 1, c.product.ImageUrls[c.i + 1],
                                c.i = 0, c.i)
       IN  /\ StoreConc(r.db)
           /\ inflight' = [inflight EXCEPT ![p] =
                 IF r.err # nil THEN [c EXCEPT !.pc = "done", !.err = r.err]
                 ELSE [c EXCEPT !.i = c.i + 1,
                                !.pc = IF c.i + 1 = Len(c.product.ImageUrls)
                                       THEN "done" ELSE "image"]]

\* AddProduct, one turn of the loop: the insert of the image at position i.
StepInsertImage(p) ==
    /\ inflight[p].pc = "image"
    /\ LET c == inflight[p]
           r == ExecInsertImage(DB, c.productId, c.product.ImageUrls[c.i + 1], c.i = 0, c.i)
       IN  /\ StoreConc(r.db)
           /\ inflight' = [inflight EXCEPT ![p] =
                 IF r.err # nil THEN [c EXCEPT !.pc = "done", !.err = r.err]
                 ELSE [c EXCEPT !.i = c.i + 1,
                                !.pc = IF c.i + 1 = Len(c.product.ImageUrls)
                                       THEN "done" ELSE "image"]]

DoDeleteById(p) ==
    /\ inflight[p].op = "idle"
    /\ \E id \in ConcIds :
         LET r == DeleteById(DB, id, NoFault)
         IN  /\ StoreConc(r.db)
             /\ inflight' = [inflight EXCEPT ![p] =
                   [NoCall EXCEPT !.op = "DeleteById", !.pc = "done",
                                  !.productId = id, !.err = r.err, !.rows = r.rows]]

DoDeleteAllProducts(p) ==
    /\ inflight[p].op = "idle"
    /\ LET r == DeleteAllProducts(DB, NoFault)
       IN  /\ StoreConc(r.db)
           /\ inflight' = [inflight EXCEPT ![p] =
                 [NoCall EXCEPT !.op = "DeleteAllProducts", !.pc = "done", !.err = r.err,
                                !.rows = r.rows]]

DoUpdatePrice(p) ==
    /\ inflight[p].op = "idle"
    /\ \E id \in ConcIds :
         LET r == UpdatePrice(DB, id, 0, NoFault)
         IN  /\ StoreConc(r.db)
             /\ inflight' = [inflight EXCEPT ![p] =
                   [NoCall EXCEPT !.op = "UpdatePrice", !.pc = "done",
                                  !.productId = id, !.newPrice = 0, !.err = r.err,
                                  !.rows = IF r.err = nil THEN RowsAffected(DB, {id}) ELSE 0]]

\* GetById, first statement: the product row scanned, or pgx.ErrNoRows.
StartGetById(p) ==
    /\ inflight[p].op = "idle"
    /\ \E id \in ConcIds :
         /\ inflight' = [inflight EXCEPT ![p] =
               IF id \in DOMAIN products
               THEN [NoCall EXCEPT !.op = "GetById", !.pc = "imageQuery",
                                   !.productId = id, !.ret = ScanProduct(DB, id)]
               ELSE [NoCall EXCEPT !.op = "GetById", !.pc = "done", !.productId = id,
                                   !.err = GetById(DB, id, NoFault).err]]
         /\ UNCHANGED <<products, product_images, products_id_seq, last>>

\* GetById, second statement: the image query of the product.
StepImageQuery(p) ==
    /\ inflight[p].pc = "imageQuery"
    /\ inflight' = [inflight EXCEPT ![p] =
          [@ EXCEPT !.pc = "done",
                    !.ret = [@ EXCEPT !.ImageUrls = SelectImageUrls(DB, inflight[p].productId)]]]
    /\ UNCHANGED <<products, product_images, products_id_seq, last>>

NextConcurrent ==
    \/ \E p \in Procs : StartAddProduct(p)
    \/ \E p \in Procs : StepInsertImage(p)
    \/ \E p \in Procs : DoDeleteById(p)
    \/ \E p \in Procs : DoDeleteAllProducts(p)
    \/ \E p \in Procs : DoUpdatePrice(p)
    \/ \E p \in Procs : StartGetById(p)
    \/ \E p \in Procs : StepImageQuery(p)

\* No product yet and every request still to make its call.
InitConcurrent ==
    /\ products = <<>>
    /\ product_images = {}
    /\ products_id_seq = 1
    /\ last = [op |-> "init", arg |-> NoArg, fault |-> NoFault, err |-> nil, ret |-> NoRet]
    /\ inflight = [p \in Procs |-> NoCall]

SpecConcurrent == InitConcurrent /\ [][NextConcurrent]_vars

-----------------------------------------------------------------------------
(* The Product Service alone: sequences of its mutating operations from an
   empty store *)

NextService ==
    \/ CallAdd
    \/ CallUpdatePrice
    \/ CallDeleteById
    \/ CallDeleteAllProducts

SpecService == Init /\ [][NextService]_vars

\* C12: in every state reached by Add, UpdatePrice, DeleteById and
\* DeleteAllProducts from an empty store, every persisted product has a price
\* strictly greater than zero.
C12_PricePositive == \A id \in DOMAIN products : products[id].price > 0

\* The state C12 fails in: an UpdatePrice returned nil and left its product
\* with a price that validateProductCreate rejects.
C12_Witness ==
    /\ last.op = "UpdatePrice"
    /\ last.err = nil
    /\ last.arg.productId \in DOMAIN products
    /\ products[last.arg.productId].price = last.arg.newPrice
    /\ last.arg.newPrice <= 0

\* The image rows of a product.
ImagesOf(rows, id) == {r \in rows : r.product_id = id}

\* C13: across Add, UpdatePrice, DeleteById and DeleteAllProducts on any ids,
\* a product that exists before and after a call keeps its name, description,
\* discount, store and image sequence: only its price may change.
C13_OnlyPriceMutable ==
    [][\A id \in DOMAIN products \cap DOMAIN products' :
          /\ [products'[id] EXCEPT !.price = 0] = [products[id] EXCEPT !.price = 0]
          /\ ImagesOf(product_images', id) = ImagesOf(product_images, id)
          /\ GetById(DB', id, NoFault).ret.ImageUrls = GetById(DB, id, NoFault).ret.ImageUrls]_vars

C13_Witness ==
    /\ last.op = "UpdatePrice"
    /\ last.err = nil
    /\ Cardinality(DOMAIN products) = MaxProducts
    /\ last.arg.productId \in DOMAIN products
    /\ products[last.arg.productId].price = 0
    /\ \E id \in DOMAIN products : products[id].price # 0
    /\ Cardinality(ImagesOf(product_images, last.arg.productId)) = MaxImages

\* The image sequences of product id in a list a read returned.
ImageUrlsIn(list, id) == {list[i].ImageUrls : i \in {j \in 1..Len(list) : list[j].Id = id}}

\* The image sequences the reads return for an existing product id, no
\* statement failing, whatever order the store yields the product rows in.
ReadsOf(db, id) ==
    {GetById(db, id, NoFault).ret.ImageUrls}
    \cup UNION {ImageUrlsIn(GettAllProducts(db, o, NoFault), id)
                   \cup ImageUrlsIn(GetAllProductsByStore(db, db.products[id].store, o, NoFault), id)
                   \cup ImageUrlsIn(GetProductsByCategoryId(db, db.products[id].category_id,
                                                            o, NoFault).ret, id) :
                  o \in Orders(DOMAIN db.products)}

\* The last call was an add that wrote a product row (under id products_id_seq - 1).
AddedRow ==
    /\ \/ last.op = "AddProduct"
       \/ last.op = "Add" /\ last.ret.calls # <<>>
    /\ last.fault.kind # "product"

\* C14: every read of an existing product returns exactly the image sequence
\* supplied when the product was added. Stated at the add that wrote the
\* product; later calls leave the image rows of an existing product as they
\* are (C14_ReadsStable).
C14_ReadsReturnSupplied ==
    AddedRow => ReadsOf(DB, products_id_seq - 1) = {C4_Urls}

\* No call changes what the reads return for a product that stays.
C14_ReadsStable ==
    [][\A id \in DOMAIN products \cap DOMAIN products' : ReadsOf(DB', id) = ReadsOf(DB, id)]_vars

\* The state C14 fails in: the add returned an error after the product row
\* and a strict, non-empty prefix of the supplied images were written, and
\* every read returns that prefix.
C14_Witness ==
    /\ AddedRow
    /\ last.err # nil
    /\ Len(C4_Urls) = MaxImages
    /\ ReadsOf(DB, products_id_seq - 1) = {SubSeq(C4_Urls, 1, MaxImages - 1)}

\* C15: under every interleaving of the statements of concurrent AddProduct,
\* DeleteById, DeleteAllProducts and UpdatePrice calls, every image row names
\* an existing product row.
C15_NoOrphanImages == \A r \in product_images : r.product_id \in DOMAIN products

\* An AddProduct lost its product to a concurrent delete between two of its
\* statements, after it had written an image: its next image insert was refused.
C15_Witness ==
    \E p \in Procs :
      /\ inflight[p].op = "AddProduct"
      /\ inflight[p].pc = "done"
      /\ inflight[p].err # nil
      /\ inflight[p].i > 0
      /\ inflight[p].productId \notin DOMAIN products
      /\ product_images # {}

\* The image sequence supplied to the AddProduct that wrote product id.
SuppliedTo(id) ==
    {inflight[q].product.ImageUrls :
        q \in {x \in Procs : inflight[x].op = "AddProduct" /\ inflight[x].productId = id}}

\* C16: a GetById that returns a product, whatever AddProduct or DeleteById
\* of that product runs at the same time, returns it with the full image
\* sequence supplied to its AddProduct.
C16_NoPartialRead ==
    \A p \in Procs :
      (inflight[p].op = "GetById" /\ inflight[p].pc = "done" /\ inflight[p].err = nil)
      => inflight[p].ret.ImageUrls \in SuppliedTo(inflight[p].ret.Id)

\* A state C16 fails in: a GetById returned a product with a strict, non-empty
\* prefix of the images its AddProduct was given.
C16_Witness ==
    \E p \in Procs :
      /\ inflight[p].op = "GetById"
      /\ inflight[p].pc = "done"
      /\ inflight[p].err = nil
      /\ inflight[p].ret.ImageUrls # <<>>
      /\ \E urls \in SuppliedTo(inflight[p].ret.Id) :
           /\ Len(inflight[p].ret.ImageUrls) < Len(urls)
           /\ inflight[p].ret.ImageUrls = SubSeq(urls, 1, Len(inflight[p].ret.ImageUrls))

\* Another: a GetById returned a product without images although its
\* AddProduct had completed with all of them, because a DeleteById of the
\* product ran between the two queries of the read.
C16_WitnessDeleted ==
    \E p, q, d \in Procs :
      /\ inflight[p].op = "GetById" /\ inflight[p].pc = "done" /\ inflight[p].err = nil
      /\ inflight[p].ret.ImageUrls = <<>>
      /\ inflight[q].op = "AddProduct" /\ inflight[q].productId = inflight[p].ret.Id
      /\ inflight[q].pc = "done" /\ inflight[q].err = nil
      /\ inflight[q].product.ImageUrls # <<>>
      /\ inflight[d].op = "DeleteById" /\ inflight[d].productId = inflight[p].ret.Id
      /\ inflight[d].err = nil

-----------------------------------------------------------------------------
(* The HTTP handlers of the product controller. Path and query parameters
   are sequences of characters, parsed as strconv parses them. *)

Digits == <<"0", "1", "2", "3", "4", "5", "6", "7", "8", "9">>

IsDigit(c) == \E d \in 1..Len(Digits) : Digits[d] = c

DigitValue(c) == (CHOOSE d \in 1..Len(Digits) : Digits[d] = c) - 1

RECURSIVE ParseUint(_, _)
ParseUint(s, acc) ==
    IF s = <<>> THEN acc ELSE ParseUint(Tail(s), acc * 10 + DigitValue(Head(s)))

\* strconv.Atoi: an optional sign and at least one decimal digit; anything
\* else is an error, with which the value 0 comes back.
Atoi(s) ==
    LET signed == s # <<>> /\ Head(s) \in {"+", "-"}
        digits == IF signed THEN Tail(s) ELSE s
    IN  IF digits = <<>> \/ \E k \in 1..Len(digits) : ~IsDigit(digits[k])
        THEN [val |-> 0, err |-> TRUE]
        ELSE [val |-> IF signed /\ Head(s) = "-" THEN 0 - ParseUint(digits, 0)
                      ELSE ParseUint(digits, 0),
              err |-> FALSE]

\* strconv.ParseFloat on the decimal strings without fraction or exponent:
\* the same syntax and value as Atoi.
ParseFloat(s) == Atoi(s)

StatusOK == 200
StatusBadRequest == 400
StatusNotFound == 404

\* ProductController.UpdatePrice: err is what the service returned, which the
\* handler does not look at.
ControllerUpdatePrice(db, param, newPrice, fault) ==
    LET productId == Atoi(param).val
        convertedPrice == ParseFloat(newPrice)
        r == UpdatePrice(db, productId, convertedPrice.val, fault)
    IN  IF Len(newPrice) = 0 THEN [db |-> db, status |-> StatusBadRequest, err |-> nil]
        ELSE IF convertedPrice.err THEN [db |-> db, status |-> StatusBadRequest, err |-> nil]
        ELSE [db |-> r.db, status |-> StatusOK, err |-> r.err]

IdParams == {<<"1">>, <<"2">>, <<"-", "1">>, <<"x">>, <<"1", "0">>}

NewPriceParams == {<<>>, <<"x">>, <<"7">>, <<"-", "3">>}

HttpUpdatePrice ==
    \E param \in IdParams :
      \E newPrice \in NewPriceParams :
        \E f \in IF Len(newPrice) = 0 \/ ParseFloat(newPrice).err THEN {NoFault} ELSE ExecFaults :
          LET r == ControllerUpdatePrice(DB, param, newPrice, f)
          IN  /\ Store(r.db)
              /\ last' = [op |-> "HttpUpdatePrice",
                          arg |-> [NoArg EXCEPT !.param = param, !.newPriceParam = newPrice],
                          fault |-> f, err |-> r.err,
                          ret |-> [NoRet EXCEPT !.status = r.status]]

NextHttp ==
    \/ CallAdd
    \/ CallDeleteById
    \/ HttpUpdatePrice

SpecHttp == Init /\ [][NextHttp]_vars

\* C18: UpdatePrice of an id that has no product row, the statement not
\* failing, is reported as not found: the repository call returns an error
\* that mentions the id, the update-price endpoint answers 404, and the
\* prices of the existing products are unchanged.
C18_UpdatePriceMissingReported ==
    [][(/\ last'.op = "HttpUpdatePrice"
        /\ ~Atoi(last'.arg.param).err
        /\ Atoi(last'.arg.param).val \notin DOMAIN products
        /\ last'.arg.newPriceParam # <<>> /\ ~ParseFloat(last'.arg.newPriceParam).err
        /\ last'.fault = NoFault)
       => (/\ last'.err # nil
           /\ last'.err.id = Atoi(last'.arg.param).val
           /\ last'.ret.status = StatusNotFound
           /\ products' = products)]_vars

\* The state C18 fails in: products exist, the id asked for was handed out
\* and deleted since, the repository returned nil and the endpoint answered 200.
C18_Witness ==
    /\ last.op = "HttpUpdatePrice"
    /\ last.fault = NoFault
    /\ last.arg.newPriceParam = <<"7">>
    /\ Atoi(last.arg.param).val \notin DOMAIN products
    /\ Atoi(last.arg.param).val >= 1 /\ Atoi(last.arg.param).val < products_id_seq
    /\ last.err = nil
    /\ last.ret.status = StatusOK
    /\ products # <<>>
    /\ \A id \in DOMAIN products : products[id].price = 3

\* C19: DeleteById of an id that has no product row, the statement not
\* failing, returns a not-found error that mentions the id and leaves the
\* products and the image rows as they were.
C19_DeleteByIdMissing ==
    [][(/\ last'.op = "DeleteById"
        /\ last'.arg.productId \notin DOMAIN products
        /\ last'.fault = NoFault)
       => (/\ last'.err = Errorf("product with id %d not found", last'.arg.productId, "")
           /\ products' = products
           /\ product_images' = product_images
           /\ ProductCount(DB') = ProductCount(DB))]_vars

C19_Witness ==
    /\ last.op = "DeleteById"
    /\ last.fault = NoFault
    /\ last.err.msg = "product with id %d not found"
    /\ last.err.id = last.arg.productId
    /\ last.arg.productId >= 1
    /\ Cardinality(DOMAIN products) = MaxProducts - 1
    /\ product_images # {}

C20_WitnessAll ==
    /\ last.op = "GettAllProducts"
    /\ last.fault.kind = "query"
    /\ last.ret.products = <<>>
    /\ Cardinality(DOMAIN products) = MaxProducts

-----------------------------------------------------------------------------
(* The list operations under the failure of any one of their statements *)

\* The faults that can strike a list operation whose product query yields
\* rows: the query itself; the iteration before row k or at the end of the
\* rows (rows.Err()); the scan of row k; the image query of row k; the scan of
\* image img of row k.
ListFaults(db, rows) ==
    {NoFault, Fault("query", 0)}
    \cup {Fault("rowsErr", k) : k \in 0..Len(rows)}
    \cup {Fault(kind, k) : kind \in {"scan", "imageQuery"}, k \in 0..(Len(rows) - 1)}
    \cup UNION {{ImageFault("imageScan", k, j) :
                    j \in 0..(Len(SelectImageUrls(db, rows[k + 1])) - 1)} :
                  k \in 0..(Len(rows) - 1)}

Categories == {1, 2}

CallAddProductWithCategory ==
    \E p \in ConcProducts :
      \E f \in AddFaults(p.ImageUrls) :
        LET r == AddProduct(DB, p, f)
        IN  /\ r.db.products_id_seq <= MaxProducts + 1
            /\ Store(r.db)
            /\ last' = [op |-> "AddProduct", arg |-> [NoArg EXCEPT !.product = p],
                        fault |-> f, err |-> r.err, ret |-> NoRet]

ListGettAllProducts ==
    \E order \in Orders(DOMAIN products) :
      \E f \in ListFaults(DB, order) :
        /\ last' = [op |-> "GettAllProducts", arg |-> [NoArg EXCEPT !.order = order],
                    fault |-> f, err |-> nil,
                    ret |-> [NoRet EXCEPT !.products = GettAllProducts(DB, order, f)]]
        /\ UNCHANGED <<products, product_images, products_id_seq, inflight>>

ListGetAllProductsByStore ==
    \E storeName \in Stores :
      \E order \in Orders({id \in DOMAIN products : products[id].store = storeName}) :
        \E f \in ListFaults(DB, order) :
          /\ last' = [op |-> "GetAllProductsByStore",
                      arg |-> [NoArg EXCEPT !.storeName = storeName, !.order = order],
                      fault |-> f, err |-> nil,
                      ret |-> [NoRet EXCEPT !.products =
                                  GetAllProductsByStore(DB, storeName, order, f)]]
          /\ UNCHANGED <<products, product_images, products_id_seq, inflight>>

ListGetProductsByCategoryId ==
    \E categoryId \in Categories :
      \E order \in Orders({id \in DOMAIN products : products[id].category_id = categoryId}) :
        \E f \in ListFaults(DB, order) :
          LET r == GetProductsByCategoryId(DB, categoryId, order, f)
          IN  /\ last' = [op |-> "GetProductsByCategoryId",
                          arg |-> [NoArg EXCEPT !.productId = categoryId, !.order = order],
                          fault |-> f, err |-> r.err,
                          ret |-> [NoRet EXCEPT !.products = r.ret]]
              /\ UNCHANGED <<products, product_images, products_id_seq, inflight>>

\* One specification per list operation, each over the stores that AddProduct
\* (with the failure of any of its inserts) and DeleteById build.
NextListAll ==
    \/ CallAddProductWithCategory
    \/ CallDeleteById
    \/ ListGettAllProducts

SpecListAll == Init /\ [][NextListAll]_vars

NextListStore ==
    \/ CallAddProductWithCategory
    \/ CallDeleteById
    \/ ListGetAllProductsByStore

SpecListStore == Init /\ [][NextListStore]_vars

NextListCategory ==
    \/ CallAddProductWithCategory
    \/ CallDeleteById
    \/ ListGetProductsByCategoryId

SpecListCategory == Init /\ [][NextListCategory]_vars

\* The products a GetProductsByCategoryId(categoryId) has to return.
MatchingCategory(db, categoryId) ==
    {id \in DOMAIN db.products : db.products[id].category_id = categoryId}

\* C21: GetProductsByCategoryId(c) returns, when no statement fails, no error
\* and exactly the products whose category id is c, each with its images in
\* display order; when any statement fails it returns an error and no list.
C21_CategoryExactOrError ==
    last.op = "GetProductsByCategoryId"
    => IF last.fault = NoFault
       THEN /\ last.err = nil
            /\ ExactlyProducts(DB, last.ret.products, MatchingCategory(DB, last.arg.productId))
       ELSE /\ last.err # nil
            /\ last.ret.products = <<>>

\* The part of C21 the code keeps: the same, for the failures the code looks
\* at (the product query's error result, a row scan, an image query, an image
\* scan), not the one it learns of only through rows.Err().
C21_CategoryExactOrErrorChecked ==
    (last.op = "GetProductsByCategoryId" /\ last.fault.kind # "rowsErr")
    => IF last.fault = NoFault
       THEN /\ last.err = nil
            /\ ExactlyProducts(DB, last.ret.products, MatchingCategory(DB, last.arg.productId))
       ELSE /\ last.err # nil
            /\ last.ret.products = <<>>

\* The state C21 fails in: the category holds MaxProducts products, the rows
\* of the product query stop with an error after the first, and the call
\* returns that one product and no error.
C21_Witness ==
    /\ last.op = "GetProductsByCategoryId"
    /\ last.fault = Fault("rowsErr", 1)
    /\ Cardinality(MatchingCategory(DB, last.arg.productId)) = MaxProducts
    /\ last.err = nil
    /\ Len(last.ret.products) = 1
    /\ last.ret.products[1] = GetById(DB, last.arg.order[1], NoFault).ret

\* C22: an AddProduct whose product insert succeeds and whose insert of the
\* image at position k fails returns an error and rolls nothing back: the
\* product row and the image rows of positions 0..k-1, and no other, are
\* added, and GetById of the new id returns the product with those k images.
\* An AddProduct whose product insert fails writes no row of either table.
C22_PartialWriteKept ==
    [][last'.op = "AddProduct"
       => LET product == last'.arg.product
              productId == products_id_seq
              k == last'.fault.at
          IN  /\ last'.fault.kind = "image"
                 => (/\ last'.err = Errorf("failed to insert image: %w", 0, DbError)
                     /\ DOMAIN products' = DOMAIN products \cup {productId}
                     /\ \A id \in DOMAIN products : products'[id] = products[id]
                     /\ product_images' = product_images \cup
                           {[product_id |-> productId, image_urls |-> product.ImageUrls[i + 1],
                             is_main_image |-> (i = 0), display_order |-> i] : i \in 0..(k - 1)}
                     /\ GetById(DB', productId, NoFault) =
                           [ret |-> [product EXCEPT !.Id = productId,
                                                    !.ImageUrls = SubSeq(product.ImageUrls, 1, k)],
                            err |-> nil])
              /\ last'.fault.kind = "product"
                 => (/\ last'.err = Errorf("failed to insert product: %w", 0, DbError)
                     /\ products' = products
                     /\ product_images' = product_images)]_vars

\* The image at the last position failed: the product and every image before
\* it are stored, next to another product.
C22_Witness ==
    /\ last.op = "AddProduct"
    /\ last.fault = Fault("image", MaxImages - 1)
    /\ last.err # nil
    /\ Cardinality(DOMAIN products) = MaxProducts
    /\ Cardinality(ImagesOf(product_images, products_id_seq - 1)) = MaxImages - 1
    /\ GetById(DB, products_id_seq - 1, NoFault).ret.ImageUrls =
          SubSeq(last.arg.product.ImageUrls, 1, MaxImages - 1)

\* The product insert failed on a store that holds products: nothing written.
C22_WitnessProduct ==
    /\ last.op = "AddProduct"
    /\ last.fault.kind = "product"
    /\ last.err # nil
    /\ products # <<>>
    /\ Cardinality(DOMAIN products) = products_id_seq - 1

C23_WitnessDeleteFirst ==
    \E a, p, q \in Procs :
      /\ inflight[a].op = "AddProduct" /\ inflight[a].pc = "done" /\ inflight[a].err = nil
      /\ inflight[a].product.ImageUrls # <<>>
      /\ inflight[q].op = "DeleteById" /\ inflight[q].productId = inflight[a].productId
      /\ inflight[q].rows = 1 /\ inflight[q].err = nil
      /\ inflight[p].op = "UpdatePrice" /\ inflight[p].productId = inflight[a].productId
      /\ inflight[p].rows = 0 /\ inflight[p].err = nil
      /\ inflight[a].productId \notin DOMAIN products

-----------------------------------------------------------------------------
(* Candidates that name a category *)

\* The ids of the rows of the categories table (the sample categories of the
\* schema); no product operation writes that table.
categories == 1..4

\* No category id, the id of a category, an id that names no category.
CategoryIds == {0, 1, 9}

CategoryCandidates ==
    {ProductCreate(NameOk, 3, "d", 0, StoreA, imgs, c) : imgs \in ImageSeqs, c \in CategoryIds}

CallAddWithCategoryId ==
    \E c \in CategoryCandidates :
      \E f \in AddFaults(c.ImageUrls) :
        LET r == Add(DB, c, f)
        IN  /\ r.db.products_id_seq <= MaxProducts + 1
            /\ Store(r.db)
            /\ last' = [op |-> "Add", arg |-> [NoArg EXCEPT !.productCreate = c],
                        fault |-> f, err |-> r.err,
                        ret |-> [NoRet EXCEPT !.calls = r.calls]]

NextCategory ==
    \/ CallAddWithCategoryId
    \/ CallDeleteById
    \/ CallGetById

SpecCategory == Init /\ [][NextCategory]_vars

\* C24: an Add of a candidate whose category id is present and names no
\* category is rejected by the service's validation, the store not invoked and
\* no row written; an Add that writes the product row of a candidate with a
\* category id writes that category id.
C24_CategoryValidated ==
    [][(last'.op = "Add" /\ last'.arg.productCreate.CategoryID # 0)
       => /\ last'.arg.productCreate.CategoryID \notin categories
             => (/\ last'.err # nil
                 /\ last'.ret.calls = <<>>
                 /\ DB' = DB)
          /\ products_id_seq' # products_id_seq
             => products'[products_id_seq].category_id = last'.arg.productCreate.CategoryID]_vars

\* The state C24 fails in: the candidate named a category that does not
\* exist, validation passed, the store was invoked and the product row was
\* written without a category id.
C24_Witness ==
    /\ last.op = "Add"
    /\ last.arg.productCreate.CategoryID # 0
    /\ last.arg.productCreate.CategoryID \notin categories
    /\ validateProductCreate(last.arg.productCreate) = nil
    /\ Len(last.ret.calls) = 1
    /\ last.ret.calls[1].CategoryID = 0
    /\ last.err = nil
    /\ products[products_id_seq - 1].category_id = 0

\* The same candidate refused by the store (as fk_products_category refuses a
\* category id that names no category), not by the service: the store was invoked.
C24_WitnessStoreRefused ==
    /\ last.op = "Add"
    /\ last.arg.productCreate.CategoryID \notin categories \cup {0}
    /\ Len(last.ret.calls) = 1
    /\ last.fault.kind = "product"
    /\ last.err = Errorf("failed to insert product: %w", 0, DbError)

\* Some UpdatePrice of a request changed the row of product id.
PriceUpdated(id) ==
    \E u \in Procs : /\ inflight[u].op = "UpdatePrice"
                     /\ inflight[u].productId = id
                     /\ inflight[u].rows > 0

\* C25: under every interleaving of the statements of concurrent AddProduct
\* calls, two calls never receive the same product id, and a call that has
\* returned no error has its product stored, as long as no request deletes it
\* or updates its price, exactly as supplied: GetById of its id returns its
\* fields and its image sequence, and the image rows of the id are its own.
C25_ConcurrentAdds ==
    \A p, q \in Procs :
      (inflight[p].op = "AddProduct" /\ inflight[q].op = "AddProduct")
      => /\ p # q => inflight[p].productId # inflight[q].productId
         /\ (/\ inflight[p].pc = "done"
             /\ inflight[p].err = nil
             /\ inflight[p].productId \in DOMAIN products
             /\ ~PriceUpdated(inflight[p].productId))
            => (/\ GetById(DB, inflight[p].productId, NoFault) =
                      [ret |-> [inflight[p].product EXCEPT !.Id = inflight[p].productId],
                       err |-> nil]
                /\ ImagesOf(product_images, inflight[p].productId) =
                      {[product_id |-> inflight[p].productId,
                        image_urls |-> inflight[p].product.ImageUrls[i + 1],
                        is_main_image |-> (i = 0), display_order |-> i] :
                          i \in 0..(Len(inflight[p].product.ImageUrls) - 1)})

\* Two AddProduct calls of different products, both with images, both
\* returned without error, both products stored.
C25_Witness ==
    \E p, q \in Procs :
      /\ inflight[p].op = "AddProduct" /\ inflight[q].op = "AddProduct"
      /\ inflight[p].pc = "done" /\ inflight[q].pc = "done"
      /\ inflight[p].err = nil /\ inflight[q].err = nil
      /\ inflight[p].product # inflight[q].product
      /\ inflight[p].product.ImageUrls # <<>> /\ inflight[q].product.ImageUrls # <<>>
      /\ inflight[p].productId < inflight[q].productId
      /\ DOMAIN products = {inflight[p].productId, inflight[q].productId}
      /\ Cardinality(product_images) =
            Len(inflight[p].product.ImageUrls) + Len(inflight[q].product.ImageUrls)

\* C26: across Add, UpdatePrice, DeleteById and DeleteAllProducts, every id
\* in the table was handed out by the sequence; the sequence never goes back;
\* a row appears only in an Add, under an id never handed out before (so an
\* id freed by a delete is not given again), while every product present
\* stays; and a product present before and after a call is the same product
\* under the same id.
C26_IdsUniqueImmutable ==
    [][/\ DOMAIN products' \subseteq 1..(products_id_seq' - 1)
       /\ products_id_seq' >= products_id_seq
       /\ \A id \in DOMAIN products' \ DOMAIN products :
             /\ id >= products_id_seq
             /\ last'.op = "Add"
             /\ DOMAIN products' = DOMAIN products \cup {id}
       /\ \A id \in DOMAIN products \cap DOMAIN products' :
             /\ [products'[id] EXCEPT !.price = 0] = [products[id] EXCEPT !.price = 0]
             /\ GetById(DB', id, NoFault).ret.Id = id]_vars

\* An Add after the delete of an earlier product: the freed id stays unused
\* and the new product has the next id of the sequence.
C26_Witness ==
    /\ last.op = "Add"
    /\ last.err = nil
    /\ products_id_seq = MaxProducts + 1
    /\ DOMAIN products = {MaxProducts}

-----------------------------------------------------------------------------
(* The handler GET /api/v1/products/:id *)

\* What the Go runtime raises when err.Error() is called on a nil error.
NilDereference == ErrorsNew("runtime error: invalid memory address or nil pointer dereference")

\* ProductController.GetProductById. The condition err != nil || productId <= 0
\* leads to err.Error(), which panics when err is nil: the handler then writes
\* no answer (status 0, err the panic). Otherwise err is what the service returned.
ControllerGetProductById(db, param, fault) ==
    LET productId == Atoi(param)
        r == GetById(db, productId.val, fault)
    IN  IF productId.err
        THEN [status |-> StatusBadRequest, invoked |-> FALSE, product |-> ZeroProduct,
              err |-> nil]
        ELSE IF productId.val <= 0
        THEN [status |-> 0, invoked |-> FALSE, product |-> ZeroProduct,
              err |-> NilDereference]
        ELSE IF r.err # nil
        THEN [status |-> StatusNotFound, invoked |-> TRUE, product |-> ZeroProduct,
              err |-> r.err]
        ELSE [status |-> StatusOK, invoked |-> TRUE, product |-> r.ret, err |-> nil]

GetIdParams == {<<"1">>, <<"2">>, <<"0">>, <<"-", "1">>, <<"x">>, <<"1", "x">>}

HttpGetProductById ==
    \E param \in GetIdParams :
      \E f \in IF ~Atoi(param).err /\ Atoi(param).val > 0
               THEN GetFaults(DB, Atoi(param).val) ELSE {NoFault} :
        LET r == ControllerGetProductById(DB, param, f)
        IN  /\ last' = [op |-> "HttpGetProductById", arg |-> [NoArg EXCEPT !.param = param],
                        fault |-> f, err |-> r.err,
                        ret |-> [NoRet EXCEPT !.status = r.status, !.invoked = r.invoked,
                                              !.product = r.product]]
            /\ UNCHANGED <<products, product_images, products_id_seq, inflight>>

NextHttpGet ==
    \/ CallAdd
    \/ CallDeleteById
    \/ HttpGetProductById

SpecHttpGet == Init /\ [][NextHttpGet]_vars

\* The id parameter is not a positive integer.
InvalidIdParam(param) == Atoi(param).err \/ Atoi(param).val <= 0

\* C27: GetProductById answers 400 for every id parameter that is not a
\* positive integer, zero and negative integers included, without calling the
\* service and without a panic.
C27_InvalidIdBadRequest ==
    (last.op = "HttpGetProductById" /\ InvalidIdParam(last.arg.param))
    => (/\ last.ret.status = StatusBadRequest
        /\ ~last.ret.invoked
        /\ last.err # NilDereference)

\* The part of C27 the code keeps: a parameter that is no integer at all is
\* answered with 400, the service not called.
C27_NonIntegerBadRequest ==
    (last.op = "HttpGetProductById" /\ Atoi(last.arg.param).err)
    => (/\ last.ret.status = StatusBadRequest
        /\ ~last.ret.invoked
        /\ last.err # NilDereference)

\* The state C27 fails in: the parameter is the integer 0 or a negative one,
\* the handler panicked and wrote no answer.
C27_Witness ==
    /\ last.op = "HttpGetProductById"
    /\ ~Atoi(last.arg.param).err
    /\ Atoi(last.arg.param).val < 0
    /\ last.err = NilDereference
    /\ last.ret.status = 0
    /\ ~last.ret.invoked
    /\ products # <<>>

\* C28: DeleteById(X) of an existing X, the statement not failing, removes the
\* row of X and the image rows of X and nothing else: every other product row
\* and every image row of another product is as before, GettAllProducts
\* returns one product fewer, and none of the products it returns is X.
C28_DeleteByIdFrame ==
    [][(/\ last'.op = "DeleteById"
        /\ last'.arg.productId \in DOMAIN products
        /\ last'.fault = NoFault)
       => LET X == last'.arg.productId
          IN  /\ DOMAIN products' = DOMAIN products \ {X}
              /\ \A id \in DOMAIN products' : products'[id] = products[id]
              /\ product_images' = {r \in product_images : r.product_id # X}
              /\ ProductCount(DB') = {n - 1 : n \in ProductCount(DB)}
              /\ \A o \in Orders(DOMAIN products') :
                    /\ \A i \in 1..Len(GettAllProducts(DB', o, NoFault)) :
                          GettAllProducts(DB', o, NoFault)[i].Id # X
                    /\ \A id \in DOMAIN products' :
                          ImageUrlsIn(GettAllProducts(DB', o, NoFault), id) =
                             {GetById(DB, id, NoFault).ret.ImageUrls}]_vars

\* The later product deleted, the earlier one left with all its images.
C28_Witness ==
    /\ last.op = "DeleteById"
    /\ last.fault = NoFault
    /\ last.err = nil
    /\ last.arg.productId = MaxProducts
    /\ DOMAIN products = 1..(MaxProducts - 1)
    /\ \A id \in DOMAIN products : Cardinality(ImagesOf(product_images, id)) = MaxImages

C29_WitnessAll ==
    /\ last.op = "GettAllProducts"
    /\ last.fault = NoFault
    /\ Len(last.ret.products) = MaxProducts
    /\ ~Ascending(last.ret.products)
    /\ \E i \in 1..Len(last.ret.products) : Len(last.ret.products[i].ImageUrls) = MaxImages

RECURSIVE IsSubsequence(_, _)
IsSubsequence(a, b) ==
    IF a = <<>> THEN TRUE
    ELSE IF b = <<>> THEN FALSE
    ELSE IF Head(a) = Head(b) THEN IsSubsequence(Tail(a), Tail(b))
    ELSE IsSubsequence(a, Tail(b))

\* The list holds the products of ids, each once, each with its stored fields.
ProductsOf(db, list, ids) ==
    /\ Len(list) = Cardinality(ids)
    /\ {list[i].Id : i \in 1..Len(list)} = ids
    /\ \A i \in 1..Len(list) :
          [list[i] EXCEPT !.ImageUrls = <<>>] = ScanProduct(db, list[i].Id)

C30_WitnessImage ==
    /\ last.op = "GetAllProductsByStore"
    /\ last.fault = ImageFault("imageScan", MaxProducts - 1, 0)
    /\ Len(last.ret.products) = MaxProducts
    /\ Len(last.ret.products[MaxProducts].ImageUrls) = MaxImages - 1
    /\ last.ret.products[MaxProducts].ImageUrls =
          Tail(GetById(DB, last.ret.products[MaxProducts].Id, NoFault).ret.ImageUrls)

====
